---- MODULE Spec2Model ----
(***************************************************************************)
(* SafeAuraController (src/src/aura-safe.js) on top of AuraProtocol        *)
(* (src/unnamed/part_002, required as ./protocol) and the hidraw wrapper   *)
(* (src/src/hid.js).                                                       *)
(*                                                                         *)
(* One action per public method of the controller.  A method is a          *)
(* composition of operators over a record m (the objects' fields during    *)
(* one call); a thrown exception is m.err, and every operator passes a     *)
(* record with m.err set through unchanged, as the JavaScript statements   *)
(* after a throw are skipped.  JavaScript byte k of a Buffer is element    *)
(* k+1 of the sequence that models it.                                     *)
(***************************************************************************)
EXTENDS Integers, Sequences, FiniteSets, TLC

VARIABLES
    options,     \* the options the controller was constructed with
    state,       \* SafeAuraController.state
    topology,    \* SafeAuraController.topology (channel -> LED count)
    device,      \* AuraProtocol.device: a handle, or NULL
    openHandles, \* the HIDDevice objects whose fd is not null
    nextHandle,  \* the handle the next successful open creates
    log,         \* per handle, the packets fs.writeSync accepted, in order
    lastOp,      \* the last call: name, state before it, outcome, traffic
    nops,        \* number of calls made so far
    pending      \* <<m>> while a call is inside fs.readSync, else <<>>

vars == <<options, state, topology, device, openHandles, nextHandle, log, lastOp, nops,
          pending>>

----------------------------------------------------------------------------
(* Bounds of the model *)

MaxOps == 3
MaxHandles == 2

----------------------------------------------------------------------------
(* Program constants *)

PACKET_SIZE == 65
NULL == 0

DISCONNECTED == "DISCONNECTED"
LOCKED == "LOCKED"
RUNTIME == "RUNTIME"
COMMITTED == "COMMITTED"
States == {DISCONNECTED, LOCKED, RUNTIME, COMMITTED}

NoError == "none"
\* The throw sites of the three files; all are plain Error objects in the code.
StateError == "StateError"                  \* the controller's own guards
NotConnected == "NotConnected"              \* sendPacket with no device
ControllerNotFound == "ControllerNotFound"  \* no 0b05:19af device listed
PermissionDenied == "PermissionDenied"      \* openSync EACCES
DeviceNotFound == "DeviceNotFound"          \* openSync ENOENT
WriteFailed == "WriteFailed"                \* writeSync threw or wrote short
InvalidConfig == "InvalidConfigResponse"    \* response absent or not EC 30
BadPacketSize == "BadPacketSize"            \* packet.length !== PACKET_SIZE

Channels == {0, 1, 2}

\* The topology the constructor installs when options.topology is falsy.
DefaultTopology == [c \in Channels |-> IF c = 2 THEN 16 ELSE 15]

----------------------------------------------------------------------------
(* Buffers *)

\* Buffer.alloc(PACKET_SIZE)
createPacket == [i \in 1..PACKET_SIZE |-> 0]

\* packet[k] = v on a plain array: the value is stored as given.
SetByte_unreduced(p, k, v) ==
    IF k \in 0..(Len(p) - 1) THEN [p EXCEPT ![k + 1] = v] ELSE p

\* packet[k] = v on a Buffer: the value is stored modulo 256, and a store
\* outside the buffer is ignored.
SetByte(p, k, v) ==
    IF k \in 0..(Len(p) - 1) THEN [p EXCEPT ![k + 1] = v % 256] ELSE p

RECURSIVE BitOr(_, _)
\* a | b on non-negative integers
BitOr(a, b) ==
    IF a = 0 THEN b
    ELSE IF b = 0 THEN a
    ELSE (IF (a % 2 = 1) \/ (b % 2 = 1) THEN 1 ELSE 0)
         + 2 * BitOr(a \div 2, b \div 2)

RECURSIVE ObjectEntries_descending(_)
\* Object.entries(t) enumerated from the largest key down.
ObjectEntries_descending(t) ==
    IF DOMAIN t = {} THEN <<>>
    ELSE LET k == CHOOSE c \in DOMAIN t : \A d \in DOMAIN t : c >= d
         IN  <<<<k, t[k]>>>>
             \o ObjectEntries_descending([d \in (DOMAIN t) \ {k} |-> t[d]])

RECURSIVE ObjectEntries(_)
\* Object.entries(t) for an object with integer keys: ascending key order.
ObjectEntries(t) ==
    IF DOMAIN t = {} THEN <<>>
    ELSE LET k == CHOOSE c \in DOMAIN t : \A d \in DOMAIN t : c <= d
         IN  <<<<k, t[k]>>>> \o ObjectEntries([d \in (DOMAIN t) \ {k} |-> t[d]])

----------------------------------------------------------------------------
(* The environment of one call *)

\* What opening the device does during this call: the sysfs scan finds no
\* device, openSync fails with EACCES or ENOENT, or it succeeds.
OpenResults == {"ok", "absent", "EACCES", "ENOENT"}

\* Which write of this call fails: none, the first or the second.  With the
\* two-entry topology and the short targets below, the second write of a call
\* is in turn a middle set-topology packet, the last one, the commit of
\* unbrick and its config request.
FailPoints == {0, 1, 2}

\* A config-table answer of the device carrying the three LED counts.
ConfigResponse(c0, c1, c2) ==
    SetByte(SetByte(SetByte(SetByte(SetByte(createPacket,
        0, 236), 1, 48), 10, c0), 16, c1), 22, c2)

NoResponse == [present |-> FALSE, bytes |-> <<>>]

\* What readSync delivers during this call: nothing, a short read, or a
\* config table.
Responses ==
    { NoResponse,
      [present |-> TRUE, bytes |-> <<236, 48>>],
      [present |-> TRUE, bytes |-> ConfigResponse(15, 15, 16)],
      [present |-> TRUE, bytes |-> ConfigResponse(15, 15, 9)] }

\* The fields of the controller, the protocol object and the transport at the
\* start of a call, with the environment of the call.
Begin(openResult, failAt, resp) ==
    [ state |-> state, device |-> device, open |-> openHandles,
      next |-> nextHandle, log |-> log,
      err |-> NoError, sent |-> <<>>, closes |-> 0, nwrites |-> 0,
      openResult |-> openResult, failAt |-> failAt, resp |-> resp,
      response |-> NoResponse,
      ret |-> [kind |-> "void"] ]

Throw(m, e) == [m EXCEPT !.err = e]

----------------------------------------------------------------------------
(* src/src/hid.js *)

\* new HID.HID(path): openSync, with EACCES and ENOENT rethrown.
HIDDevice(m) ==
    IF m.err # NoError THEN m
    ELSE IF m.openResult = "EACCES" THEN Throw(m, PermissionDenied)
    ELSE IF m.openResult = "ENOENT" THEN Throw(m, DeviceNotFound)
    ELSE [m EXCEPT !.open = @ \cup {m.next}, !.next = @ + 1]

\* HIDDevice.write on handle h: all of the packet, or an error (writeSync
\* throwing, or a short write); a failed write delivers no packet.
write(m, h, data) ==
    IF m.err # NoError THEN m
    ELSE IF h \notin m.open THEN Throw(m, "DeviceNotOpen")
    ELSE IF m.failAt = m.nwrites + 1
         THEN [m EXCEPT !.err = WriteFailed, !.nwrites = @ + 1]
    ELSE [m EXCEPT !.log[h] = Append(@, data),
                   !.sent = Append(@, data),
                   !.nwrites = @ + 1]

\* HIDDevice.readTimeout on handle h: the bytes read, or null.
readTimeout(m, h) ==
    IF m.err # NoError THEN m
    ELSE IF h \notin m.open THEN Throw(m, "DeviceNotOpen")
    ELSE [m EXCEPT !.response = m.resp]

\* HIDDevice.close on handle h.
close(m, h) ==
    IF m.err # NoError THEN m
    ELSE IF h \in m.open
         THEN [m EXCEPT !.open = @ \ {h}, !.closes = @ + 1]
    ELSE m

----------------------------------------------------------------------------
(* AuraProtocol, src/unnamed/part_002 *)

\* AuraProtocol.connect: find the device, open it, keep the handle.
protocol_connect(m) ==
    IF m.err # NoError THEN m
    ELSE IF m.openResult = "absent" THEN Throw(m, ControllerNotFound)
    ELSE LET o == HIDDevice(m)
         IN  IF o.err # NoError THEN o ELSE [o EXCEPT !.device = m.next]

\* AuraProtocol.disconnect
protocol_disconnect(m) ==
    IF m.err # NoError THEN m
    ELSE IF m.device # NULL
         THEN [close(m, m.device) EXCEPT !.device = NULL]
    ELSE m

\* AuraProtocol.sendPacket writing the packet a second time when the first
\* write fails.
sendPacket_retryOnce(m, packet, waitResponse) ==
    IF m.err # NoError THEN m
    ELSE IF m.device = NULL THEN Throw(m, NotConnected)
    ELSE IF Len(packet) # PACKET_SIZE THEN Throw(m, BadPacketSize)
    ELSE LET w1 == write(m, m.device, packet)
             w == IF w1.err = WriteFailed
                  THEN write([w1 EXCEPT !.err = NoError], m.device, packet)
                  ELSE w1
         IN  IF waitResponse THEN readTimeout(w, m.device) ELSE w

\* AuraProtocol.sendPacket
sendPacket(m, packet, waitResponse) ==
    IF m.err # NoError THEN m
    ELSE IF m.device = NULL THEN Throw(m, NotConnected)
    ELSE IF Len(packet) # PACKET_SIZE THEN Throw(m, BadPacketSize)
    ELSE LET w == write(m, m.device, packet)
         IN  IF waitResponse THEN readTimeout(w, m.device) ELSE w

\* The packet of AuraProtocol.getConfig: EC B0
ReadConfigPacket == SetByte(SetByte(createPacket, 0, 236), 1, 176)

\* The packet of AuraProtocol.setLEDCount: EC 52 53 channel count
SetLEDCountPacket(channel, count) ==
    SetByte(SetByte(SetByte(SetByte(SetByte(createPacket,
        0, 236), 1, 82), 2, 83), 3, channel), 4, count)

\* The packet of AuraProtocol.commit: EC 3F 55
CommitPacket == SetByte(SetByte(SetByte(createPacket, 0, 236), 1, 63), 2, 85)

\* The packet of AuraProtocol.setEffect: EC 35 channel mode r g b brightness
SetEffectPacket(channel, mode, r, g, b, brightness) ==
    SetByte(SetByte(SetByte(SetByte(SetByte(SetByte(SetByte(SetByte(createPacket,
        0, 236), 1, 53), 2, channel), 3, mode), 4, r), 5, g), 6, b), 7, brightness)

\* One pass of the loop of AuraProtocol.setDirectLED: the three stores of
\* colour c at idx, idx + 1 and idx + 2.
StoreColor(p, idx, c) ==
    [k \in 1..Len(p) |->
        IF k = idx + 1 THEN c.r % 256
        ELSE IF k = idx + 2 THEN c.g % 256
        ELSE IF k = idx + 3 THEN c.b % 256
        ELSE p[k]]

RECURSIVE FillColors(_, _, _)
\* The loop of AuraProtocol.setDirectLED run for i = 0 .. n-1.
FillColors(p, colors, n) ==
    IF n = 0 THEN p
    ELSE StoreColor(FillColors(p, colors, n - 1), 5 + (n - 1) * 3, colors[n])

\* The number of passes of that loop: i < colors.length && i < 20
LoopPasses(colors) == IF Len(colors) < 20 THEN Len(colors) ELSE 20

\* The packet of AuraProtocol.setDirectLED: EC 40 (80|channel) offset n rgb...
SetDirectLEDPacket(channel, offset, colors) ==
    FillColors(
        SetByte(SetByte(SetByte(SetByte(SetByte(createPacket,
            0, 236), 1, 64), 2, BitOr(128, channel)), 3, offset), 4, Len(colors)),
        colors, LoopPasses(colors))

\* response[k] on the Buffer of a response: undefined (-1) past its end.
ByteAt(bytes, k) == IF k < Len(bytes) THEN bytes[k + 1] ELSE -1

\* AuraProtocol.getConfig with the offsets of channels 1 and 2 exchanged.
protocol_getConfig_swappedOffsets(m) ==
    LET r == sendPacket(m, ReadConfigPacket, TRUE)
    IN  IF r.err # NoError THEN r
        ELSE IF \/ ~r.response.present
                \/ ByteAt(r.response.bytes, 0) # 236
                \/ ByteAt(r.response.bytes, 1) # 48
             THEN Throw(r, InvalidConfig)
        ELSE [r EXCEPT !.ret =
                [ kind |-> "config",
                  raw |-> r.response.bytes,
                  channel0_leds |-> ByteAt(r.response.bytes, 10),
                  channel1_leds |-> ByteAt(r.response.bytes, 22),
                  channel2_leds |-> ByteAt(r.response.bytes, 16) ]]

\* AuraProtocol.getConfig from the return of sendPacket on: the check of the
\* response and the snapshot.
decodeConfig(r) ==
    IF r.err # NoError THEN r
    ELSE IF \/ ~r.response.present
            \/ ByteAt(r.response.bytes, 0) # 236
            \/ ByteAt(r.response.bytes, 1) # 48
         THEN Throw(r, InvalidConfig)
    ELSE [r EXCEPT !.ret =
            [ kind |-> "config",
              raw |-> r.response.bytes,
              channel0_leds |-> ByteAt(r.response.bytes, 10),
              channel1_leds |-> ByteAt(r.response.bytes, 16),
              channel2_leds |-> ByteAt(r.response.bytes, 22) ]]

\* AuraProtocol.getConfig
protocol_getConfig(m) == decodeConfig(sendPacket(m, ReadConfigPacket, TRUE))

\* AuraProtocol.setLEDCount
setLEDCount(m, channel, count) ==
    sendPacket(m, SetLEDCountPacket(channel, count), FALSE)

\* AuraProtocol.commit
protocol_commit(m) == sendPacket(m, CommitPacket, FALSE)

\* AuraProtocol.setEffect
protocol_setEffect(m, channel, mode, r, g, b, brightness) ==
    sendPacket(m, SetEffectPacket(channel, mode, r, g, b, brightness), FALSE)

\* AuraProtocol.setDirectLED
setDirectLED(m, channel, offset, colors) ==
    sendPacket(m, SetDirectLEDPacket(channel, offset, colors), FALSE)

----------------------------------------------------------------------------
(* SafeAuraController, src/src/aura-safe.js *)

\* The options.topology a caller may pass: none, or an object.
NoTopology == [given |-> FALSE, map |-> <<>>]
GivenTopology(t) == [given |-> TRUE, map |-> t]

\* constructor: this.topology = options.topology || { 0: 15, 1: 15, 2: 16 }
constructor(opts) ==
    IF opts.topology.given THEN opts.topology.map ELSE DefaultTopology

RECURSIVE sendTopology(_, _)
\* The for-of loop of initTopology and of unbrick over Object.entries.
sendTopology(m, entries) ==
    IF entries = <<>> THEN m
    ELSE sendTopology(setLEDCount(m, Head(entries)[1], Head(entries)[2]),
                      Tail(entries))

\* initTopology() as the strict transition LOCKED -> RUNTIME.
initTopology_fromLockedOnly(m) ==
    IF m.err # NoError THEN m
    ELSE IF m.state # LOCKED THEN Throw(m, StateError)
    ELSE LET s == sendTopology(m, ObjectEntries(topology))
         IN  IF s.err # NoError THEN s ELSE [s EXCEPT !.state = RUNTIME]

\* initTopology() sending the target of the unbrick() before it, as if
\* unbrick() had stored its target in this.topology.
initTopology_resendsTarget(m) ==
    IF m.err # NoError THEN m
    ELSE IF m.state = DISCONNECTED THEN Throw(m, StateError)
    ELSE LET t == IF lastOp.name = "unbrick" /\ lastOp.args.given
                  THEN lastOp.args.map ELSE topology
             s == sendTopology(m, ObjectEntries(t))
         IN  IF s.err # NoError THEN s ELSE [s EXCEPT !.state = RUNTIME]

\* initTopology() without the assignment of RUNTIME.
initTopology_keepsState(m) ==
    IF m.err # NoError THEN m
    ELSE IF m.state = DISCONNECTED THEN Throw(m, StateError)
    ELSE sendTopology(m, ObjectEntries(topology))

\* initTopology() rejected in COMMITTED as well as in DISCONNECTED.
initTopology_rejectsCommitted(m) ==
    IF m.err # NoError THEN m
    ELSE IF m.state \in {DISCONNECTED, COMMITTED} THEN Throw(m, StateError)
    ELSE LET s == sendTopology(m, ObjectEntries(topology))
         IN  IF s.err # NoError THEN s ELSE [s EXCEPT !.state = RUNTIME]

\* initTopology()
initTopology(m) ==
    IF m.err # NoError THEN m
    ELSE IF m.state = DISCONNECTED THEN Throw(m, StateError)
    ELSE LET s == sendTopology(m, ObjectEntries(topology))
         IN  IF s.err # NoError THEN s ELSE [s EXCEPT !.state = RUNTIME]

\* connect() without the initTopology() call.
connect_lockedOnly(m) ==
    LET c == protocol_connect(m)
    IN  IF c.err # NoError THEN c ELSE [c EXCEPT !.state = LOCKED]

\* connect() assigning LOCKED whether the device opened or not.
connect_lockedFirst(m) ==
    LET c == protocol_connect(m)
    IN  IF c.err # NoError THEN [c EXCEPT !.state = LOCKED]
        ELSE initTopology([c EXCEPT !.state = LOCKED])

\* connect()
connect(m) ==
    LET c == protocol_connect(m)
    IN  IF c.err # NoError THEN c
        ELSE initTopology([c EXCEPT !.state = LOCKED])

\* disconnect() without the state assignment.
disconnect_keepsState(m) == protocol_disconnect(m)

\* disconnect()
disconnect(m) ==
    LET d == protocol_disconnect(m)
    IN  IF d.err # NoError THEN d ELSE [d EXCEPT !.state = DISCONNECTED]

\* _ensureRuntime() without the DISCONNECTED check.
ensureRuntime_noDisconnectedCheck(m) ==
    IF m.err # NoError THEN m
    ELSE IF m.state = LOCKED THEN initTopology(m)
    ELSE m

\* _ensureRuntime() without the automatic initTopology() in LOCKED.
ensureRuntime_noAutoInit(m) ==
    IF m.err # NoError THEN m
    ELSE IF m.state = DISCONNECTED THEN Throw(m, StateError)
    ELSE m

\* _ensureRuntime() initialising the topology again in COMMITTED.
ensureRuntime_reinitCommitted(m) ==
    IF m.err # NoError THEN m
    ELSE IF m.state = DISCONNECTED THEN Throw(m, StateError)
    ELSE IF m.state \in {LOCKED, COMMITTED} THEN initTopology(m)
    ELSE m

\* _ensureRuntime()
ensureRuntime(m) ==
    IF m.err # NoError THEN m
    ELSE IF m.state = DISCONNECTED THEN Throw(m, StateError)
    ELSE IF m.state = LOCKED THEN initTopology(m)
    ELSE m

\* setLED(channel, ledIndex, r, g, b)
setLED(m, channel, ledIndex, r, g, b) ==
    setDirectLED(ensureRuntime(m), channel, ledIndex,
                 <<[r |-> r, g |-> g, b |-> b]>>)

\* const count = 16, whatever the channel.
AllLEDsCount_fixed(channel) == 16

\* const count = this.topology[channel], with 0 for a missing channel.
AllLEDsCount_noDefault(channel) ==
    IF channel \in DOMAIN topology THEN topology[channel] ELSE 0

\* const count = this.topology[channel] || 16
AllLEDsCount(channel) ==
    IF channel \in DOMAIN topology /\ topology[channel] # 0
    THEN topology[channel] ELSE 16

\* setAllLEDs(channel, r, g, b)
setAllLEDs(m, channel, r, g, b) ==
    setDirectLED(ensureRuntime(m), channel, 0,
                 [i \in 1..AllLEDsCount(channel) |-> [r |-> r, g |-> g, b |-> b]])

\* setEffect(channel, mode, r, g, b, brightness)
setEffect(m, channel, mode, r, g, b, brightness) ==
    protocol_setEffect(ensureRuntime(m), channel, mode, r, g, b, brightness)

\* commit() rejecting the DISCONNECTED state only.
commit_unlessDisconnected(m) ==
    IF m.err # NoError THEN m
    ELSE IF m.state = DISCONNECTED THEN Throw(m, StateError)
    ELSE LET c == protocol_commit(m)
         IN  IF c.err # NoError THEN c ELSE [c EXCEPT !.state = COMMITTED]

\* commit() assigning COMMITTED before the packet is sent.
commit_stateFirst(m) ==
    IF m.err # NoError THEN m
    ELSE IF m.state # RUNTIME THEN Throw(m, StateError)
    ELSE protocol_commit([m EXCEPT !.state = COMMITTED])

\* commit()
commit(m) ==
    IF m.err # NoError THEN m
    ELSE IF m.state # RUNTIME THEN Throw(m, StateError)
    ELSE LET c == protocol_commit(m)
         IN  IF c.err # NoError THEN c ELSE [c EXCEPT !.state = COMMITTED]

\* getConfig() guarded by _ensureRuntime(), like the colour methods.
getConfig_autoInit(m) == protocol_getConfig(ensureRuntime(m))

\* getConfig()
getConfig(m) ==
    IF m.err # NoError THEN m
    ELSE IF m.state = DISCONNECTED THEN Throw(m, StateError)
    ELSE protocol_getConfig(m)

Bool(v) == [kind |-> "bool", val |-> v]

\* getState()
getState(m) == [m EXCEPT !.ret = [kind |-> "state", val |-> m.state]]

\* isBricked() without the try/catch.
isBricked_rethrows(m) ==
    LET g == getConfig(m)
        ch0 == g.ret.channel0_leds
        ch1 == g.ret.channel1_leds
        ch2 == g.ret.channel2_leds
    IN  IF g.err # NoError THEN g
        ELSE IF ch0 = 0 \/ ch1 = 0 \/ ch2 = 0
             THEN [g EXCEPT !.ret = Bool(TRUE)]
        ELSE IF ch0 = ch1 /\ ch1 = ch2 /\ ch0 # 15
             THEN [g EXCEPT !.ret = Bool(TRUE)]
        ELSE [g EXCEPT !.ret = Bool(FALSE)]

\* isBricked() that also flags a channel 2 below its 16 LEDs.
isBricked_lowChannel2(m) ==
    LET g == getConfig(m)
        ch0 == g.ret.channel0_leds
        ch1 == g.ret.channel1_leds
        ch2 == g.ret.channel2_leds
    IN  IF g.err # NoError
        THEN [g EXCEPT !.err = NoError, !.ret = Bool(TRUE)]
        ELSE IF ch0 = 0 \/ ch1 = 0 \/ ch2 < 16
             THEN [g EXCEPT !.ret = Bool(TRUE)]
        ELSE IF ch0 = ch1 /\ ch1 = ch2 /\ ch0 # 15
             THEN [g EXCEPT !.ret = Bool(TRUE)]
        ELSE [g EXCEPT !.ret = Bool(FALSE)]

\* isBricked(): the try block, and the catch that answers true.
isBricked(m) ==
    LET g == getConfig(m)
        ch0 == g.ret.channel0_leds
        ch1 == g.ret.channel1_leds
        ch2 == g.ret.channel2_leds
    IN  IF g.err # NoError
        THEN [g EXCEPT !.err = NoError, !.ret = Bool(TRUE)]
        ELSE IF ch0 = 0 \/ ch1 = 0 \/ ch2 = 0
             THEN [g EXCEPT !.ret = Bool(TRUE)]
        ELSE IF ch0 = ch1 /\ ch1 = ch2 /\ ch0 # 15
             THEN [g EXCEPT !.ret = Bool(TRUE)]
        ELSE [g EXCEPT !.ret = Bool(FALSE)]

\* unbrick() without the commit.
unbrick_withoutCommit(m, targetTopology) ==
    LET t == IF targetTopology.given THEN targetTopology.map ELSE topology
        s == sendTopology(m, ObjectEntries(t))
        g == getConfig(s)
    IN  IF g.err # NoError THEN g
        ELSE [g EXCEPT !.state = COMMITTED,
                       !.ret = Bool(g.ret.channel2_leds >= 16)]

\* unbrick() verifying channel 0 instead of channel 2.
unbrick_verifiesChannel0(m, targetTopology) ==
    LET t == IF targetTopology.given THEN targetTopology.map ELSE topology
        s == sendTopology(m, ObjectEntries(t))
        c == protocol_commit(s)
        g == getConfig(c)
    IN  IF g.err # NoError THEN g
        ELSE [g EXCEPT !.state = COMMITTED,
                       !.ret = Bool(g.ret.channel0_leds >= 16)]

\* unbrick() guarded like commit(): rejected unless RUNTIME or COMMITTED.
unbrick_guarded(m, targetTopology) ==
    LET t == IF targetTopology.given THEN targetTopology.map ELSE topology
        s == sendTopology(m, ObjectEntries(t))
        c == protocol_commit(s)
        g == getConfig(c)
    IN  IF m.state \notin {RUNTIME, COMMITTED} THEN Throw(m, StateError)
        ELSE IF g.err # NoError THEN g
        ELSE [g EXCEPT !.state = COMMITTED,
                       !.ret = Bool(g.ret.channel2_leds >= 16)]

\* unbrick(targetTopology = null)
unbrick(m, targetTopology) ==
    LET t == IF targetTopology.given THEN targetTopology.map ELSE topology
        s == sendTopology(m, ObjectEntries(t))
        c == protocol_commit(s)
        g == getConfig(c)
    IN  IF g.err # NoError THEN g
        ELSE [g EXCEPT !.state = COMMITTED,
                       !.ret = Bool(g.ret.channel2_leds >= 16)]

----------------------------------------------------------------------------
(* The calls a program makes on one controller *)

\* The topologies callers construct the controller with: none (the default),
\* and one with a missing channel and a strip longer than a packet holds.
TopologyOptions ==
    { NoTopology,
      GivenTopology([c \in {0, 2} |-> IF c = 2 THEN 9 ELSE 30]) }

\* The target topologies callers pass to unbrick: none, one channel only,
\* all zero, and an empty object.
TargetOptions ==
    { NoTopology,
      GivenTopology([c \in {2} |-> 16]),
      GivenTopology([c \in Channels |-> 0]),
      GivenTopology([c \in {} |-> 0]) }

SetLEDArgs == { <<2, 9, 255, 0, 0>> }
SetAllLEDsArgs == { <<2, 0, 0, 255>>, <<1, 0, 255, 0>> }
SetEffectArgs == { <<0, 1, 255, 255, 255, 255>> }

\* The state a call leaves behind, and the record of the call.
End(name, args, m) ==
    /\ state' = m.state
    /\ device' = m.device
    /\ openHandles' = m.open
    /\ nextHandle' = m.next
    /\ log' = m.log
    /\ lastOp' = [ name |-> name, args |-> args, pre |-> state,
                   err |-> m.err, writes |-> m.nwrites, sent |-> m.sent,
                   closes |-> m.closes, resp |-> m.response,
                   env |-> m.openResult, ret |-> m.ret ]
    /\ nops' = nops + 1
    /\ pending' = <<>>
    /\ UNCHANGED <<options, topology>>

\* A constructor that connects: the session starts in RUNTIME on handle 1.
InitOptions_connected(O) ==
    /\ options \in O
    /\ state = RUNTIME
    /\ topology = constructor(options)
    /\ device = 1
    /\ openHandles = {1}
    /\ nextHandle = 2
    /\ log = [h \in 1..MaxHandles |-> <<>>]
    /\ lastOp = [ name |-> "constructor", args |-> <<>>, pre |-> DISCONNECTED,
                  err |-> NoError, writes |-> 0, sent |-> <<>>,
                  closes |-> 0, resp |-> NoResponse,
                  env |-> "ok", ret |-> [kind |-> "void"] ]
    /\ nops = 0
    /\ pending = <<>>

\* The state after new SafeAuraController(options), options drawn from O.
InitOptions(O) ==
    /\ options \in O
    /\ state = DISCONNECTED
    /\ topology = constructor(options)
    /\ device = NULL
    /\ openHandles = {}
    /\ nextHandle = 1
    /\ log = [h \in 1..MaxHandles |-> <<>>]
    /\ lastOp = [ name |-> "constructor", args |-> <<>>, pre |-> DISCONNECTED,
                  err |-> NoError, writes |-> 0, sent |-> <<>>,
                  closes |-> 0, resp |-> NoResponse,
                  env |-> "ok", ret |-> [kind |-> "void"] ]
    /\ nops = 0
    /\ pending = <<>>

\* The state after new SafeAuraController(options), options.topology from T.
InitWith(T) == InitOptions({ [topology |-> o] : o \in T })

Init == InitWith(TopologyOptions)

\* A call of connect() in an environment drawn from O and F.
ConnectCall(O, F) ==
    /\ nops < MaxOps
    /\ \E o \in O, f \in F :
        /\ o = "ok" => nextHandle <= MaxHandles
        /\ End("connect", <<>>, connect(Begin(o, f, NoResponse)))

Connect == ConnectCall(OpenResults, FailPoints)

Disconnect ==
    /\ nops < MaxOps
    /\ End("disconnect", <<>>, disconnect(Begin("ok", 0, NoResponse)))

\* A call of initTopology() in an environment drawn from F.
InitTopologyCall(F) ==
    /\ nops < MaxOps
    /\ \E f \in F :
        End("initTopology", <<>>, initTopology(Begin("ok", f, NoResponse)))

InitTopology == InitTopologyCall(FailPoints)

\* A call of setLED() with arguments from A, in an environment from F.
SetLEDCall(A, F) ==
    /\ nops < MaxOps
    /\ \E a \in A, f \in F :
        End("setLED", a,
               setLED(Begin("ok", f, NoResponse), a[1], a[2], a[3], a[4], a[5]))

SetLED == SetLEDCall(SetLEDArgs, FailPoints)

\* A call of setAllLEDs() with arguments from A, in an environment from F.
SetAllLEDsCall(A, F) ==
    /\ nops < MaxOps
    /\ \E a \in A, f \in F :
        End("setAllLEDs", a,
               setAllLEDs(Begin("ok", f, NoResponse), a[1], a[2], a[3], a[4]))

SetAllLEDs == SetAllLEDsCall(SetAllLEDsArgs, FailPoints)

\* A call of setEffect() with arguments from A, in an environment from F.
SetEffectCall(A, F) ==
    /\ nops < MaxOps
    /\ \E a \in A, f \in F :
        End("setEffect", a,
               setEffect(Begin("ok", f, NoResponse),
                         a[1], a[2], a[3], a[4], a[5], a[6]))

SetEffect == SetEffectCall(SetEffectArgs, FailPoints)

\* A call of commit() in an environment drawn from F.
CommitCall(F) ==
    /\ nops < MaxOps
    /\ \E f \in F :
        End("commit", <<>>, commit(Begin("ok", f, NoResponse)))

Commit == CommitCall(FailPoints)

\* A call of getConfig() in an environment drawn from F and R.
GetConfigCall(F, R) ==
    /\ nops < MaxOps
    /\ \E f \in F, r \in R :
        End("getConfig", <<>>, getConfig(Begin("ok", f, r)))

GetConfig == GetConfigCall(FailPoints, Responses)

\* A call of isBricked() in an environment drawn from F and R.
IsBrickedCall(F, R) ==
    /\ nops < MaxOps
    /\ \E f \in F, r \in R :
        End("isBricked", <<>>, isBricked(Begin("ok", f, r)))

IsBricked == IsBrickedCall(FailPoints, Responses)

\* A call of unbrick() with a target from T, in an environment from F and R.
UnbrickCall(T, F, R) ==
    /\ nops < MaxOps
    /\ \E t \in T, f \in F, r \in R :
        End("unbrick", t, unbrick(Begin("ok", f, r), t))

Unbrick == UnbrickCall(TargetOptions, FailPoints, Responses)

Next ==
    \/ Connect
    \/ Disconnect
    \/ InitTopology
    \/ SetLED
    \/ SetAllLEDs
    \/ SetEffect
    \/ Commit
    \/ GetConfig
    \/ IsBricked
    \/ Unbrick

Spec == Init /\ [][Next]_vars

----------------------------------------------------------------------------
(* The configuration reads of a session, over many device answers *)

\* The answers of the device to a config request: none, a packet that is not
\* a config table (the request echoed), a short read, and config tables over
\* a range of LED counts.
ConfigResponses ==
    { NoResponse,
      [present |-> TRUE, bytes |-> ReadConfigPacket],
      [present |-> TRUE, bytes |-> <<236, 48>>] }
    \cup { [present |-> TRUE, bytes |-> ConfigResponse(c0, c1, c2)] :
             c0 \in {0, 5, 15}, c1 \in {0, 5, 15}, c2 \in {0, 5, 9, 15, 16} }

\* The targets of unbrick in these sessions: none, and the documented fix.
ConfigTargets == { NoTopology, GivenTopology(DefaultTopology) }

\* The request write fails, or does not.
ConfigFailPoints == {0, 1}

ConnectOk == ConnectCall({"ok"}, {0})

GetConfigAny == GetConfigCall(ConfigFailPoints, ConfigResponses)

IsBrickedAny == IsBrickedCall(ConfigFailPoints, ConfigResponses)

UnbrickAny == UnbrickCall(ConfigTargets, {0}, ConfigResponses)

NextConfig ==
    \/ ConnectOk
    \/ GetConfigAny
    \/ IsBrickedAny
    \/ UnbrickAny

SpecConfig == Init /\ [][NextConfig]_vars

----------------------------------------------------------------------------
(* The packets of a session, over arguments in and out of the byte range *)

\* Topologies with the shortest strip, the longest strip one packet holds,
\* a count that does not fit in a byte, a count of 0 and a missing channel.
WireTopologies ==
    TopologyOptions
    \cup { GivenTopology([c \in Channels |->
                            IF c = 0 THEN 300 ELSE IF c = 1 THEN 20 ELSE 1]),
           GivenTopology([c \in {0, 2} |-> IF c = 0 THEN 0 ELSE 5]) }

WireSetLEDArgs == { <<2, 9, 255, 0, 0>>, <<258, 259, 256, -1, 300>> }
WireSetAllLEDsArgs == { <<0, 0, 0, 255>>, <<1, 0, 255, 0>>, <<2, 255, 128, 1>> }
WireSetEffectArgs ==
    { <<0, 1, 255, 255, 255, 255>>, <<257, 256, -1, 300, 511, 256>> }

\* The answer of a healthy device.
WireResponses == { [present |-> TRUE, bytes |-> ConfigResponse(15, 15, 16)] }

InitWire == InitWith(WireTopologies)

\* connect() that works, or whose first topology write fails (Locked).
ConnectWire == ConnectCall({"ok"}, {0, 1})

InitTopologyWire == InitTopologyCall({0})

SetLEDWire == SetLEDCall(WireSetLEDArgs, {0})

SetAllLEDsWire == SetAllLEDsCall(WireSetAllLEDsArgs, {0})

SetEffectWire == SetEffectCall(WireSetEffectArgs, {0})

CommitWire == CommitCall({0})

GetState ==
    /\ nops < MaxOps
    /\ End("getState", <<>>, getState(Begin("ok", 0, NoResponse)))

GetConfigWire == GetConfigCall({0}, WireResponses)

IsBrickedWire == IsBrickedCall({0, 1}, WireResponses)

NextWire ==
    \/ ConnectWire
    \/ InitTopologyWire
    \/ SetLEDWire
    \/ SetAllLEDsWire
    \/ SetEffectWire
    \/ CommitWire
    \/ GetState
    \/ GetConfigWire
    \/ IsBrickedWire

SpecWire == InitWire /\ [][NextWire]_vars

----------------------------------------------------------------------------
(* Opening and closing the device, over what the machine holds *)

\* OpenResults, and the machine where the scan of /sys/class/hidraw finds no
\* 0b05:19af device while /dev/hidraw0 exists and opens: findAuraDevice
\* returns /dev/hidraw0 and devices() lists it as the controller.
ConnectResults == OpenResults \cup {"hidraw0"}

\* The environments of connect() in which no 0b05:19af device is present.
NoMatchingDevice == {"absent", "hidraw0"}

\* The environments of connect() in which openSync is refused.
AccessDenied == {"EACCES"}

ConnectAny == ConnectCall(ConnectResults, {0, 1})

NextConnect ==
    \/ ConnectAny
    \/ Disconnect
    \/ GetState

\* The options callers construct the controller with: a topology or none,
\* verbose or not.
ControllerOptions ==
    { [topology |-> o, verbose |-> v] : o \in TopologyOptions, v \in BOOLEAN }

InitConnect == InitOptions(ControllerOptions)

SpecConnect == InitConnect /\ [][NextConnect]_vars

----------------------------------------------------------------------------
(* The lifecycle of one session of the default topology, one call longer *)

LifeOps == MaxOps + 1

\* The write of a call fails at once, or not at all.
LifeFailPoints == {0, 1}

LifeCall(name, args, m) == nops < LifeOps /\ End(name, args, m)

InitLife == InitWith({NoTopology})

LifeConnect ==
    \E f \in LifeFailPoints :
        /\ nextHandle <= MaxHandles
        /\ LifeCall("connect", <<>>, connect(Begin("ok", f, NoResponse)))

LifeDisconnect ==
    LifeCall("disconnect", <<>>, disconnect(Begin("ok", 0, NoResponse)))

LifeInitTopology ==
    \E f \in LifeFailPoints :
        LifeCall("initTopology", <<>>, initTopology(Begin("ok", f, NoResponse)))

LifeCommit ==
    \E f \in LifeFailPoints :
        LifeCall("commit", <<>>, commit(Begin("ok", f, NoResponse)))

LifeSetEffect ==
    \E a \in SetEffectArgs, f \in LifeFailPoints :
        LifeCall("setEffect", a,
                 setEffect(Begin("ok", f, NoResponse),
                           a[1], a[2], a[3], a[4], a[5], a[6]))

LifeGetState ==
    LifeCall("getState", <<>>, getState(Begin("ok", 0, NoResponse)))

LifeGetConfig ==
    \E r \in WireResponses :
        LifeCall("getConfig", <<>>, getConfig(Begin("ok", 0, r)))

LifeIsBricked ==
    \E f \in LifeFailPoints, r \in WireResponses :
        LifeCall("isBricked", <<>>, isBricked(Begin("ok", f, r)))

LifeUnbrick ==
    \E r \in WireResponses \cup {NoResponse} :
        LifeCall("unbrick", NoTopology, unbrick(Begin("ok", 0, r), NoTopology))

NextLife ==
    \/ LifeConnect
    \/ LifeDisconnect
    \/ LifeInitTopology
    \/ LifeCommit
    \/ LifeSetEffect
    \/ LifeGetState
    \/ LifeGetConfig
    \/ LifeIsBricked
    \/ LifeUnbrick

SpecLife == InitLife /\ [][NextLife]_vars

----------------------------------------------------------------------------
(* The command-line programs: src/unnamed/part_003 (unbrick-rgb-all),
   src/tools/unbrick-all.js and src/bin/unbrick-rgb-verify.js.  One run of a
   program is one action; the device is read several times during a run and
   may answer differently each time. *)

\* checkSetup(): /dev/hidraw0 exists and is readable and writable, is
\* missing, or is not accessible.
SetupResults == {"ok", "missing", "noaccess"}

\* What the device answers to one config request during a run.
CliResponses ==
    { NoResponse,
      [present |-> TRUE, bytes |-> ConfigResponse(15, 15, 16)],
      [present |-> TRUE, bytes |-> ConfigResponse(15, 15, 9)],
      [present |-> TRUE, bytes |-> ConfigResponse(0, 0, 0)] }

\* No write of the run fails, or the fourth does: the config request that
\* follows the three topology packets of connect().
CliFailPoints == {0, 4}

\* The end of the process: its exit code, whether the run's isBricked()
\* reported a brick, and whether unbrick() returned true.
Exit(m, code, bricked, recovered) ==
    [m EXCEPT !.ret = [ kind |-> "exit", code |-> code,
                        bricked |-> bricked, recovered |-> recovered ]]

\* The try block of unbrick-rgb-all and of unbrick-all, with its catch
\* (process.exit(1)); a run that leaves the try block ends with code 0.
unbrickMain(m, r1, r2, r3) ==
    LET c == connect(m)
        g == getConfig([c EXCEPT !.resp = r1])
        b == isBricked([g EXCEPT !.resp = r2])
        u == unbrick([b EXCEPT !.resp = r3], NoTopology)
    IN  IF c.err # NoError THEN Exit(c, 1, FALSE, FALSE)
        ELSE IF g.err # NoError THEN Exit(g, 1, FALSE, FALSE)
        ELSE IF b.ret.val
             THEN IF u.err # NoError THEN Exit(u, 1, TRUE, FALSE)
                  ELSE Exit(disconnect(u), 0, TRUE, u.ret.val)
        ELSE Exit(disconnect(b), 0, FALSE, FALSE)

\* unbrick-rgb-all: checkSetup(), then the main flow.
unbrickRgbAll(setup, m, r1, r2, r3) ==
    IF setup # "ok" THEN Exit(m, 1, FALSE, FALSE)
    ELSE unbrickMain(m, r1, r2, r3)

\* The try block of unbrick-rgb-verify with its catch, and the timer
\* callback that switches the test LED off and disconnects; an exception in
\* the callback is uncaught and ends the process with code 1.
verifyMain(m, r1, r2, r3) ==
    LET c == connect(m)
        g == getConfig([c EXCEPT !.resp = r1])
        p == isBricked([getState(g) EXCEPT !.resp = r2])
        b == isBricked([p EXCEPT !.resp = r3])
        on == setLED(b, 2, 9, 255, 0, 0)
        off == setLED(on, 2, 9, 0, 0, 0)
    IN  IF c.err # NoError THEN Exit(c, 1, FALSE, FALSE)
        ELSE IF g.err # NoError THEN Exit(g, 1, FALSE, FALSE)
        ELSE IF b.ret.val THEN Exit(b, 0, TRUE, FALSE)
        ELSE IF g.ret.channel2_leds >= 10
             THEN IF off.err # NoError THEN Exit(off, 1, FALSE, FALSE)
                  ELSE Exit(disconnect(off), 0, FALSE, FALSE)
        ELSE Exit(disconnect(b), 0, FALSE, FALSE)

\* unbrick-rgb-verify: checkSetup(), then the main flow.
unbrickRgbVerify(setup, m, r1, r2, r3) ==
    IF setup # "ok" THEN Exit(m, 1, FALSE, FALSE)
    ELSE verifyMain(m, r1, r2, r3)

\* The programs construct their controller with verbose only.
InitCli ==
    InitOptions({ [topology |-> NoTopology, verbose |-> v] : v \in BOOLEAN })

\* A run of unbrick-rgb-all ({ verbose: true }).  With /dev/hidraw0 present
\* the device scan finds the controller or falls back to /dev/hidraw0.
UnbrickRgbAll ==
    /\ nops = 0
    /\ options.verbose
    /\ \E s \in SetupResults, o \in {"ok", "hidraw0"}, f \in CliFailPoints,
          r1 \in CliResponses, r2 \in CliResponses, r3 \in CliResponses :
        End("unbrick-rgb-all", <<s, o, f, r1, r2, r3>>,
            unbrickRgbAll(s, Begin(o, f, NoResponse), r1, r2, r3))

\* A run of tools/unbrick-all.js ({ verbose: true }), which has no
\* checkSetup().
UnbrickAll ==
    /\ nops = 0
    /\ options.verbose
    /\ \E o \in ConnectResults, f \in CliFailPoints,
          r1 \in CliResponses, r2 \in CliResponses, r3 \in CliResponses :
        End("unbrick-all", <<"ok", o, f, r1, r2, r3>>,
            unbrickMain(Begin(o, f, NoResponse), r1, r2, r3))

\* A run of unbrick-rgb-verify ({ verbose: false }).
UnbrickRgbVerify ==
    /\ nops = 0
    /\ ~options.verbose
    /\ \E s \in SetupResults, o \in {"ok", "hidraw0"}, f \in CliFailPoints,
          r1 \in CliResponses, r2 \in CliResponses, r3 \in CliResponses :
        End("unbrick-rgb-verify", <<s, o, f, r1, r2, r3>>,
            unbrickRgbVerify(s, Begin(o, f, NoResponse), r1, r2, r3))

NextCli ==
    \/ UnbrickRgbAll
    \/ UnbrickAll
    \/ UnbrickRgbVerify

SpecCli == InitCli /\ [][NextCli]_vars

----------------------------------------------------------------------------
(* A config request seen from inside: sendPacket writes the request and then
   HIDDevice.readTimeout calls fs.readSync on the descriptor, which was
   opened 'r+' without O_NONBLOCK; timeoutMs is not used.  The call is
   blocked in the read until the kernel hands over an input report or the
   read fails, and the process runs nothing else meanwhile. *)

ReadOps == MaxOps + 1

ReadFailPoints == {0, 1}

ReadConnect ==
    /\ pending = <<>>
    /\ nops < ReadOps
    /\ nextHandle <= MaxHandles
    /\ \E f \in ReadFailPoints :
        End("connect", <<>>, connect(Begin("ok", f, NoResponse)))

ReadDisconnect ==
    /\ pending = <<>>
    /\ nops < ReadOps
    /\ End("disconnect", <<>>, disconnect(Begin("ok", 0, NoResponse)))

\* getConfig() up to the write of the request in sendPacket.
getConfig_request(m) ==
    IF m.err # NoError THEN m
    ELSE IF m.state = DISCONNECTED THEN Throw(m, StateError)
    ELSE sendPacket(m, ReadConfigPacket, FALSE)

\* getConfig() is called: it throws before the read, or enters fs.readSync.
GetConfigRequest ==
    /\ pending = <<>>
    /\ nops < ReadOps
    /\ \E f \in ReadFailPoints :
        LET w == getConfig_request(Begin("ok", f, NoResponse))
        IN  IF w.err # NoError
            THEN End("getConfig", <<>>, w)
            ELSE /\ pending' = <<w>>
                 /\ log' = w.log
                 /\ UNCHANGED <<state, device, openHandles, nextHandle,
                                lastOp, nops, options, topology>>

\* fs.readSync returns (bytes, nothing, or an error that readTimeout turns
\* into null) and getConfig() finishes.
ReadReturns ==
    /\ pending # <<>>
    /\ \E r \in Responses :
        End("getConfig", <<>>,
            decodeConfig(readTimeout([pending[1] EXCEPT !.resp = r],
                                     pending[1].device)))

\* The steps the program takes by itself.
ReadProgram ==
    \/ ReadConnect
    \/ ReadDisconnect
    \/ GetConfigRequest

NextRead ==
    \/ ReadProgram
    \/ ReadReturns

InitRead == InitWith({NoTopology})

\* The program goes on whenever it is not blocked.  When the read returns is
\* up to the device and the kernel: nothing in the code ends it.
SpecRead == InitRead /\ [][NextRead]_vars /\ WF_vars(ReadProgram)

----------------------------------------------------------------------------
(* What the device sees (wire table of the protocol) *)

\* EC 52 53 channel count
IsTopologyPacket(p) == p[1] = 236 /\ p[2] = 82 /\ p[3] = 83
\* EC 3F 55
IsCommitPacket(p) == p[1] = 236 /\ p[2] = 63 /\ p[3] = 85
\* EC 35 ...
IsEffectPacket(p) == p[1] = 236 /\ p[2] = 53
\* EC 40 ...
IsDirectPacket(p) == p[1] = 236 /\ p[2] = 64
\* channel and count of a set-topology packet
TopologyChannel(p) == p[4]
TopologyCount(p) == p[5]

\* Before packet i of handle h, a set-topology packet was written on h for
\* every channel of the session's topology.
TopologySentBefore(h, i) ==
    \A c \in DOMAIN topology :
        \E j \in 1..(i - 1) :
            IsTopologyPacket(log[h][j]) /\ TopologyChannel(log[h][j]) = c

\* seq is the complete topology sequence: one set-topology packet per entry
\* of the session's topology, channels strictly ascending, counts as configured.
IsTopologySequence(seq) ==
    /\ Len(seq) = Cardinality(DOMAIN topology)
    /\ \A i \in 1..Len(seq) :
        /\ IsTopologyPacket(seq[i])
        /\ TopologyChannel(seq[i]) \in DOMAIN topology
        /\ TopologyCount(seq[i]) = topology[TopologyChannel(seq[i])] % 256
    /\ \A i, j \in 1..Len(seq) :
        i < j => TopologyChannel(seq[i]) < TopologyChannel(seq[j])

\* The transport accepted every write of the last call.
TransportWorked == lastOp.err # WriteFailed

ColorOps == {"setLED", "setAllLEDs", "setEffect"}

----------------------------------------------------------------------------
(* Claims *)

\* C1: every direct-color (EC 40) or effect (EC 35) packet written to a handle
\* is preceded, on that handle since it was opened, by a set-topology packet
\* for every channel of the session's configured topology.
C1_TopologyBeforeOperations ==
    \A h \in DOMAIN log :
        \A i \in 1..Len(log[h]) :
            (IsDirectPacket(log[h][i]) \/ IsEffectPacket(log[h][i]))
                => TopologySentBefore(h, i)

\* C2: no commit packet (EC 3F 55) is written to a handle, by commit() or by
\* unbrick(), unless a set-topology packet was sent on that handle before it
\* for every channel of the session's configured topology.
C2_NoCommitWithoutTopology ==
    \A h \in DOMAIN log :
        \A i \in 1..Len(log[h]) :
            IsCommitPacket(log[h][i]) => TopologySentBefore(h, i)

\* C3: commit() called in Locked or Disconnected fails with a state error,
\* writes nothing to the transport, and leaves the tracked state unchanged.
C3_CommitRejected ==
    (lastOp.name = "commit" /\ lastOp.pre \in {LOCKED, DISCONNECTED})
        => /\ lastOp.err = StateError
           /\ lastOp.writes = 0
           /\ lastOp.sent = <<>>
           /\ state = lastOp.pre

\* C3 witness: a commit() made in Locked (after a connect() whose first
\* topology write failed) was rejected.
C3_Witness ==
    /\ lastOp.name = "commit"
    /\ lastOp.pre = LOCKED
    /\ lastOp.err = StateError
    /\ device # NULL

\* C4: commit() called in Runtime or Committed with a working transport
\* succeeds, sends exactly one commit packet and leaves the state Committed.
C4_CommitAccepted ==
    (lastOp.name = "commit" /\ lastOp.pre \in {RUNTIME, COMMITTED}
       /\ TransportWorked)
        => /\ lastOp.err = NoError
           /\ lastOp.sent = <<CommitPacket>>
           /\ state = COMMITTED

\* C5: whenever connect() returns without raising, the tracked state is
\* Runtime and the packets written so far on the newly opened handle are
\* exactly the topology sequence.
C5_ConnectEndsInRuntime ==
    (lastOp.name = "connect" /\ lastOp.err = NoError)
        => /\ state = RUNTIME
           /\ device # NULL
           /\ device \in openHandles
           /\ device = nextHandle - 1
           /\ IsTopologySequence(log[device])

\* C5 witness: a connect() that returned normally.
C5_Witness ==
    /\ lastOp.name = "connect"
    /\ lastOp.err = NoError
    /\ Len(lastOp.sent) = Cardinality(DOMAIN topology)
    /\ Len(lastOp.sent) > 0

\* C6: in Disconnected, each of setLED, setAllLEDs, setEffect, commit,
\* getConfig and initTopology fails with a state error, writes nothing to the
\* transport, and leaves the state Disconnected.
C6_DisconnectedRejects ==
    (lastOp.pre = DISCONNECTED
       /\ lastOp.name \in ColorOps \cup {"commit", "getConfig", "initTopology"})
        => /\ lastOp.err = StateError
           /\ lastOp.writes = 0
           /\ lastOp.sent = <<>>
           /\ state = DISCONNECTED

\* C6 witness: a setAllLEDs() made after a disconnect() was rejected.
C6_Witness ==
    /\ lastOp.name = "setAllLEDs"
    /\ lastOp.pre = DISCONNECTED
    /\ lastOp.err = StateError
    /\ nextHandle > 1

\* C7: setLED, setAllLEDs or setEffect called in Locked with a working
\* transport does not fail: it sends the complete topology sequence, then its
\* own packet, and ends in Runtime.
C7_AutoInitInLocked ==
    (lastOp.name \in ColorOps /\ lastOp.pre = LOCKED /\ TransportWorked)
        => LET n == Len(lastOp.sent) - 1
           IN  /\ lastOp.err = NoError
               /\ state = RUNTIME
               /\ n >= 0
               /\ IsTopologySequence(SubSeq(lastOp.sent, 1, n))
               /\ IF lastOp.name = "setEffect"
                  THEN IsEffectPacket(lastOp.sent[n + 1])
                  ELSE IsDirectPacket(lastOp.sent[n + 1])

\* C7 witness: a setLED() made in Locked returned normally.
C7_Witness ==
    /\ lastOp.name = "setLED"
    /\ lastOp.pre = LOCKED
    /\ lastOp.err = NoError
    /\ Len(lastOp.sent) > 1

\* C8: disconnect() called in any tracked state leaves the state
\* Disconnected, and a disconnect() called when already Disconnected raises
\* no error, closes nothing and writes nothing.
C8_DisconnectIdempotent ==
    lastOp.name = "disconnect"
        => /\ state = DISCONNECTED
           /\ lastOp.err = NoError
           /\ device = NULL
           /\ lastOp.pre = DISCONNECTED
                => (lastOp.closes = 0 /\ lastOp.writes = 0)
           /\ lastOp.pre # DISCONNECTED => lastOp.closes = 1

\* C8 witness: a second disconnect() right after the one that closed the
\* handle of a connected session.
C8_Witness ==
    /\ lastOp.name = "disconnect"
    /\ lastOp.pre = DISCONNECTED
    /\ lastOp.closes = 0
    /\ nextHandle = 2
    /\ openHandles = {}
    /\ nops = 3

\* C9: initTopology() called twice in a row from Runtime leaves the state
\* Runtime and the configured topology unchanged, and the second call sends
\* the same sequence of set-topology packets as the first.
C9_InitTopologyIdempotent ==
    [][ ( /\ state = RUNTIME
          /\ nops' = nops + 1
          /\ lastOp'.name = "initTopology"
          /\ lastOp'.err # WriteFailed )
        => /\ lastOp'.err = NoError
           /\ state' = RUNTIME
           /\ topology' = topology
           /\ (lastOp.name = "initTopology" /\ lastOp.err = NoError)
                => lastOp'.sent = lastOp.sent ]_vars

\* C9 witness: three calls, each of which wrote the whole topology on the
\* same handle: connect() and two initTopology() in a row.
C9_Witness ==
    /\ lastOp.name = "initTopology"
    /\ lastOp.pre = RUNTIME
    /\ lastOp.err = NoError
    /\ state = RUNTIME
    /\ nops = 3
    /\ device # NULL
    /\ Len(log[device]) = 3 * Cardinality(DOMAIN topology)
    /\ \A i \in 1..Len(log[device]) : IsTopologyPacket(log[device][i])

\* C10: a successful initTopology() sends exactly one set-topology packet per
\* entry of the configured topology (the caller's if one was given, otherwise
\* {0:15, 1:15, 2:16}) in ascending channel order, sends no other packet, and
\* ends in Runtime.
C10_InitTopologySequence ==
    /\ topology = IF options.topology.given
                  THEN options.topology.map
                  ELSE [c \in {0, 1, 2} |-> IF c = 2 THEN 16 ELSE 15]
    /\ (lastOp.name = "initTopology" /\ lastOp.err = NoError)
        => /\ IsTopologySequence(lastOp.sent)
           /\ lastOp.writes = Len(lastOp.sent)
           /\ state = RUNTIME

\* C10 witness: a successful initTopology() of a controller constructed with
\* a topology of its own.
C10_Witness ==
    /\ lastOp.name = "initTopology"
    /\ lastOp.err = NoError
    /\ options.topology.given
    /\ Len(lastOp.sent) = 2

----------------------------------------------------------------------------
(* Claims on the lifecycle, recovery and configuration reads *)

\* EC B0
IsReadConfigPacket(p) == p[1] = 236 /\ p[2] = 176

\* A packet that changes the runtime or the stored configuration.
IsConfigChanging(p) ==
    IsTopologyPacket(p) \/ IsEffectPacket(p) \/ IsDirectPacket(p)
        \/ IsCommitPacket(p)

\* The position of a state in the flow DISCONNECTED, LOCKED, RUNTIME, COMMITTED.
Rank(st) ==
    IF st = DISCONNECTED THEN 0
    ELSE IF st = LOCKED THEN 1
    ELSE IF st = RUNTIME THEN 2
    ELSE 3

\* seq is the complete topology sequence of topology t.
IsTopologySequenceFor(seq, t) ==
    /\ Len(seq) = Cardinality(DOMAIN t)
    /\ \A i \in 1..Len(seq) :
        /\ IsTopologyPacket(seq[i])
        /\ TopologyChannel(seq[i]) \in DOMAIN t
        /\ TopologyCount(seq[i]) = t[TopologyChannel(seq[i])] % 256
    /\ \A i, j \in 1..Len(seq) :
        i < j => TopologyChannel(seq[i]) < TopologyChannel(seq[j])

\* The last call read a complete config table (65 bytes starting EC 30).
ReadConfigTable ==
    /\ lastOp.resp.present
    /\ Len(lastOp.resp.bytes) = PACKET_SIZE
    /\ lastOp.resp.bytes[1] = 236
    /\ lastOp.resp.bytes[2] = 48

\* The last call got no usable answer to a config request: it wrote no
\* request, read nothing, or read something that does not start EC 30.
ReadFailed ==
    \/ lastOp.sent = <<>>
    \/ ~lastOp.resp.present
    \/ Len(lastOp.resp.bytes) < 2
    \/ lastOp.resp.bytes[1] # 236
    \/ lastOp.resp.bytes[2] # 48

\* C11: the tracked state only advances along Disconnected, Locked, Runtime,
\* Committed; the only step to an earlier state is disconnect() going to
\* Disconnected.
C11_LinearLifecycle ==
    [][ \/ Rank(state') >= Rank(state)
        \/ (lastOp'.name = "disconnect" /\ state' = DISCONNECTED) ]_vars

\* C12: whenever the tracked state is Committed, the most recent
\* configuration-changing packet sent to the device (set-topology, effect,
\* direct-color or commit) is a commit packet.
C12_CommittedMeansPersisted ==
    state = COMMITTED
        => /\ device # NULL
           /\ LET S == { i \in 1..Len(log[device]) :
                            IsConfigChanging(log[device][i]) }
              IN  /\ S # {}
                  /\ \E i \in S :
                        /\ \A j \in S : j <= i
                        /\ IsCommitPacket(log[device][i])

\* C13: a successful unbrick(target) writes exactly one set-topology packet
\* per entry of the chosen topology (the target if given, else the session's)
\* in ascending channel order, then one commit packet, then one read-config
\* request, whatever the tracked state was.
C13_UnbrickSequence ==
    (lastOp.name = "unbrick" /\ lastOp.err = NoError)
        => LET t == IF lastOp.args.given THEN lastOp.args.map ELSE topology
               n == Len(lastOp.sent) - 2
           IN  /\ n >= 0
               /\ lastOp.writes = Len(lastOp.sent)
               /\ IsTopologySequenceFor(SubSeq(lastOp.sent, 1, n), t)
               /\ IsCommitPacket(lastOp.sent[n + 1])
               /\ IsReadConfigPacket(lastOp.sent[n + 2])

\* C13 witness: a successful unbrick({2: 16}) made in Locked.
C13_Witness ==
    /\ lastOp.name = "unbrick"
    /\ lastOp.err = NoError
    /\ lastOp.pre = LOCKED
    /\ lastOp.args.given
    /\ Len(lastOp.sent) = 3

\* C14: unbrick() returns true exactly when the configuration read after the
\* commit reports at least 16 LEDs on channel 2, whatever channels 0 and 1
\* and the target are; when the device answers with the counts of the target
\* {0:15, 1:15, 2:16}, unbrick of that target returns true.
C14_UnbrickVerdict ==
    (lastOp.name = "unbrick" /\ lastOp.err = NoError)
        => /\ lastOp.ret.kind = "bool"
           /\ lastOp.ret.val
                <=> ( /\ Len(lastOp.resp.bytes) >= 23
                      /\ lastOp.resp.bytes[23] >= 16 )
           /\ ( /\ lastOp.args.given
                /\ DOMAIN lastOp.args.map = {0, 1, 2}
                /\ lastOp.args.map[0] = 15
                /\ lastOp.args.map[1] = 15
                /\ lastOp.args.map[2] = 16
                /\ ReadConfigTable
                /\ lastOp.resp.bytes[11] = 15
                /\ lastOp.resp.bytes[17] = 15
                /\ lastOp.resp.bytes[23] = 16 )
                => lastOp.ret.val

\* C14 witness: connect(), then unbrick({0:15, 1:15, 2:16}) answered with
\* those counts, returning true.
C14_Witness ==
    /\ lastOp.name = "unbrick"
    /\ lastOp.err = NoError
    /\ nops = 2
    /\ lastOp.pre = RUNTIME
    /\ lastOp.args.given
    /\ ReadConfigTable
    /\ lastOp.resp.bytes[11] = 15
    /\ lastOp.resp.bytes[17] = 15
    /\ lastOp.resp.bytes[23] = 16
    /\ lastOp.ret.val

\* C15: whenever unbrick() has sent the commit packet, the tracked state is
\* Committed when unbrick() finishes, whatever the verification gave
\* (true, false, or a failed read).
C15_CommittedOnceCommitSent ==
    ( /\ lastOp.name = "unbrick"
      /\ \E i \in 1..Len(lastOp.sent) : IsCommitPacket(lastOp.sent[i]) )
        => state = COMMITTED

\* C16: unbrick() is never rejected because of the tracked state: it raises
\* no state error in any state, and in Locked, Runtime and Committed it ends
\* normally or with a transport or protocol error only.
C16_UnbrickInAnyState ==
    lastOp.name = "unbrick"
        => /\ lastOp.err # StateError
           /\ lastOp.pre # DISCONNECTED
                => lastOp.err \in {NoError, WriteFailed, InvalidConfig}
           /\ (lastOp.pre # DISCONNECTED /\ TransportWorked /\ ~ReadFailed)
                => lastOp.err = NoError

\* C16 witness: unbrick() without a target, made in Locked, ended normally.
C16_Witness ==
    /\ lastOp.name = "unbrick"
    /\ lastOp.pre = LOCKED
    /\ ~lastOp.args.given
    /\ lastOp.err = NoError
    /\ state = COMMITTED

C18_IsBrickedFailSafe ==
    lastOp.name = "isBricked"
        => /\ lastOp.err = NoError
           /\ lastOp.ret.kind = "bool"
           /\ state = lastOp.pre
           /\ (lastOp.pre = DISCONNECTED \/ ReadFailed) => lastOp.ret.val

\* C18 witness: isBricked() answered true on a response with a wrong prefix.
C18_Witness ==
    /\ lastOp.name = "isBricked"
    /\ lastOp.pre = RUNTIME
    /\ lastOp.resp.present
    /\ lastOp.resp.bytes[2] = 176
    /\ lastOp.ret.val
    /\ lastOp.err = NoError

\* C19: getConfig() in Locked, Runtime or Committed sends exactly one
\* read-config request and no topology, leaves the tracked state unchanged,
\* and returns the counts of the response to that request.
C19_GetConfigFrame ==
    ( /\ lastOp.name = "getConfig"
      /\ lastOp.pre \in {LOCKED, RUNTIME, COMMITTED}
      /\ TransportWorked )
        => /\ lastOp.sent = <<ReadConfigPacket>>
           /\ lastOp.writes = 1
           /\ state = lastOp.pre
           /\ ReadConfigTable
                => /\ lastOp.err = NoError
                   /\ lastOp.ret.kind = "config"
                   /\ lastOp.ret.raw = lastOp.resp.bytes
                   /\ lastOp.ret.channel0_leds = lastOp.resp.bytes[11]
                   /\ lastOp.ret.channel1_leds = lastOp.resp.bytes[17]
                   /\ lastOp.ret.channel2_leds = lastOp.resp.bytes[23]

\* C19 witness: a getConfig() made in Locked returned a snapshot.
C19_Witness ==
    /\ lastOp.name = "getConfig"
    /\ lastOp.pre = LOCKED
    /\ state = LOCKED
    /\ lastOp.err = NoError
    /\ lastOp.ret.kind = "config"

\* C20: decoding a configuration response fails with a protocol error when
\* the response is absent or does not start EC 30; otherwise the snapshot's
\* channel 0, 1 and 2 counts are the response bytes 0x0A, 0x10 and 0x16.
C20_DecodeConfig ==
    (lastOp.name = "getConfig" /\ lastOp.sent = <<ReadConfigPacket>>)
        => IF ReadFailed
           THEN lastOp.err = InvalidConfig /\ lastOp.ret.kind = "void"
           ELSE Len(lastOp.resp.bytes) >= 23
                  => /\ lastOp.err = NoError
                     /\ lastOp.ret.channel0_leds = lastOp.resp.bytes[11]
                     /\ lastOp.ret.channel1_leds = lastOp.resp.bytes[17]
                     /\ lastOp.ret.channel2_leds = lastOp.resp.bytes[23]

\* C20 witness: a snapshot with three different counts, 5, 15 and 9.
C20_Witness ==
    /\ lastOp.name = "getConfig"
    /\ lastOp.err = NoError
    /\ lastOp.ret.kind = "config"
    /\ lastOp.ret.channel0_leds = 5
    /\ lastOp.ret.channel1_leds = 15
    /\ lastOp.ret.channel2_leds = 9

\* Every byte of p from JavaScript index k on is zero.
ZeroFrom(p, k) == \A j \in (k + 1)..Len(p) : p[j] = 0

\* p is one of the packets of the wire table: 65 bytes, byte 0 = EC, the
\* command bytes of its kind, and zeroes after its fields.
IsWirePacket(p) ==
    /\ Len(p) = PACKET_SIZE
    /\ \A j \in 1..Len(p) : p[j] \in 0..255
    /\ p[1] = 236
    /\ \/ p[2] = 176 /\ ZeroFrom(p, 2)
       \/ p[2] = 82 /\ p[3] = 83 /\ ZeroFrom(p, 5)
       \/ p[2] = 63 /\ p[3] = 85 /\ ZeroFrom(p, 3)
       \/ p[2] = 53 /\ ZeroFrom(p, 8)
       \/ p[2] = 64

\* The colours the last setLED or setAllLEDs call handed to setDirectLED:
\* how many, and which.
DirectCount ==
    IF lastOp.name = "setLED" THEN 1 ELSE AllLEDsCount(lastOp.args[1])

DirectColor ==
    IF lastOp.name = "setLED"
    THEN <<lastOp.args[3], lastOp.args[4], lastOp.args[5]>>
    ELSE <<lastOp.args[2], lastOp.args[3], lastOp.args[4]>>

DirectOffset == IF lastOp.name = "setLED" THEN lastOp.args[2] ELSE 0

\* Triplet i (from 0) of direct-color packet p is colour c, byte by byte.
TripletIs(p, i, c) ==
    /\ p[6 + 3 * i] = c[1] % 256
    /\ p[7 + 3 * i] = c[2] % 256
    /\ p[8 + 3 * i] = c[3] % 256

\* C21: a configuration response that starts EC 30 but is too short to hold
\* the bytes at 0x0A, 0x10 and 0x16 is rejected with a protocol error, and
\* getConfig() never returns a snapshot with a missing channel count.
C21_UndersizedRejected ==
    lastOp.name = "getConfig"
        => /\ ( /\ lastOp.sent = <<ReadConfigPacket>>
                /\ lastOp.resp.present
                /\ Len(lastOp.resp.bytes) < 23 )
                => lastOp.err = InvalidConfig
           /\ lastOp.err = NoError
                => /\ lastOp.ret.channel0_leds \in 0..255
                   /\ lastOp.ret.channel1_leds \in 0..255
                   /\ lastOp.ret.channel2_leds \in 0..255

\* C22: every packet handed to the transport is 65 bytes with byte 0 = EC,
\* carries the command bytes of the wire table, has every field byte equal to
\* its argument modulo 256 (out-of-range arguments raise nothing), and is zero
\* everywhere else.
C22_WirePackets ==
    /\ \A h \in 1..MaxHandles : \A i \in 1..Len(log[h]) : IsWirePacket(log[h][i])
    /\ (lastOp.name = "setEffect" /\ lastOp.pre \in {RUNTIME, COMMITTED})
        => /\ lastOp.err = NoError
           /\ Len(lastOp.sent) = 1
           /\ lastOp.sent[1][2] = 53
           /\ \A k \in 1..6 : lastOp.sent[1][2 + k] = lastOp.args[k] % 256
           /\ ZeroFrom(lastOp.sent[1], 8)
    /\ (lastOp.name = "initTopology" /\ lastOp.pre # DISCONNECTED)
        => /\ lastOp.err = NoError
           /\ Len(lastOp.sent) = Cardinality(DOMAIN topology)
           /\ \A i \in 1..Len(lastOp.sent) :
                /\ lastOp.sent[i][2] = 82
                /\ lastOp.sent[i][3] = 83
                /\ lastOp.sent[i][4] \in DOMAIN topology
                /\ lastOp.sent[i][5] = topology[lastOp.sent[i][4]] % 256
                /\ ZeroFrom(lastOp.sent[i], 5)
    /\ (lastOp.name = "commit" /\ lastOp.err = NoError)
        => /\ Len(lastOp.sent) = 1
           /\ lastOp.sent[1][2] = 63
           /\ lastOp.sent[1][3] = 85
           /\ ZeroFrom(lastOp.sent[1], 3)
    /\ (lastOp.name = "getConfig" /\ lastOp.pre # DISCONNECTED)
        => /\ Len(lastOp.sent) = 1
           /\ lastOp.sent[1][2] = 176
           /\ ZeroFrom(lastOp.sent[1], 2)

\* C22 witness: an effect packet and a topology packet whose arguments were
\* reduced modulo 256 (channel 257 sent as 1, count 300 sent as 44).
C22_Witness ==
    /\ lastOp.name = "setEffect"
    /\ lastOp.err = NoError
    /\ lastOp.args[1] = 257
    /\ lastOp.sent[1][3] = 1
    /\ \E i \in 1..Len(log[device]) :
        /\ IsTopologyPacket(log[device][i])
        /\ TopologyCount(log[device][i]) = 44

\* C23: in every direct-color packet byte 2 is 0x80 | channel, byte 3 the
\* offset, and byte 4 the number of triplets written from byte 5 on in input
\* order, which is min(len(colors), 20): the count byte never exceeds 20.
C23_DirectCountIsWritten ==
    /\ \A h \in 1..MaxHandles : \A i \in 1..Len(log[h]) :
        IsDirectPacket(log[h][i]) => log[h][i][5] <= 20
    /\ ( /\ lastOp.name \in {"setLED", "setAllLEDs"}
         /\ lastOp.pre \in {RUNTIME, COMMITTED}
         /\ lastOp.err = NoError )
        => LET p == lastOp.sent[1]
               n == IF DirectCount < 20 THEN DirectCount ELSE 20
           IN  /\ p[2] = 64
               /\ p[3] = BitOr(128, lastOp.args[1]) % 256
               /\ p[4] = DirectOffset % 256
               /\ p[5] = n
               /\ \A i \in 0..(n - 1) : TripletIs(p, i, DirectColor)
               /\ ZeroFrom(p, 5 + 3 * n)

\* C24: setAllLEDs(channel, color) in Runtime or Committed, for a channel
\* whose configured count n is between 1 and 20, writes exactly one packet:
\* a direct-color packet with offset 0, count n and n triplets equal to color.
C24_SetAllLEDsOnePacket ==
    ( /\ lastOp.name = "setAllLEDs"
      /\ lastOp.pre \in {RUNTIME, COMMITTED}
      /\ lastOp.args[1] \in DOMAIN topology
      /\ topology[lastOp.args[1]] \in 1..20 )
        => LET n == topology[lastOp.args[1]]
               p == lastOp.sent[1]
           IN  /\ lastOp.err = NoError
               /\ lastOp.writes = 1
               /\ Len(lastOp.sent) = 1
               /\ IsDirectPacket(p)
               /\ p[3] = 128 + lastOp.args[1]
               /\ p[4] = 0
               /\ p[5] = n
               /\ \A i \in 0..(n - 1) :
                    TripletIs(p, i, <<lastOp.args[2], lastOp.args[3], lastOp.args[4]>>)
               /\ ZeroFrom(p, 5 + 3 * n)

\* C24 witness: setAllLEDs on a channel of 20 LEDs, the most one packet holds.
C24_Witness ==
    /\ lastOp.name = "setAllLEDs"
    /\ lastOp.pre = RUNTIME
    /\ lastOp.args[1] \in DOMAIN topology
    /\ topology[lastOp.args[1]] = 20
    /\ Len(lastOp.sent) = 1
    /\ lastOp.sent[1][5] = 20
    /\ lastOp.sent[1][65] = lastOp.args[4]

\* C25: no operation retries on a transport error: when a write fails the
\* error propagates to the caller, the failed packet is not written again and
\* the operation writes no further packet.
C25_WriteErrorPropagates ==
    lastOp.writes > Len(lastOp.sent)
        => /\ lastOp.err = WriteFailed
           /\ lastOp.writes = Len(lastOp.sent) + 1

\* C25 as the code has it: a failed write is the last write of its operation,
\* what was written before it is the start of the operation's sequence, and
\* the error reaches the caller of every operation but isBricked(), which
\* answers true instead.
C25_NoRetry ==
    lastOp.writes > Len(lastOp.sent)
        => /\ lastOp.writes = Len(lastOp.sent) + 1
           /\ IF lastOp.name = "isBricked"
              THEN lastOp.err = NoError /\ lastOp.ret.val
              ELSE lastOp.err = WriteFailed
           /\ lastOp.name \in {"initTopology", "connect"}
                => /\ Len(lastOp.sent) < Cardinality(DOMAIN topology)
                   /\ \A i \in 1..Len(lastOp.sent) :
                        IsTopologyPacket(lastOp.sent[i])
           /\ ( /\ lastOp.name = "unbrick"
                /\ \E i \in 1..Len(lastOp.sent) : IsCommitPacket(lastOp.sent[i]) )
                => /\ IsCommitPacket(lastOp.sent[Len(lastOp.sent)])
                   /\ \A i \in 1..(Len(lastOp.sent) - 1) :
                        IsTopologyPacket(lastOp.sent[i])

\* C25 witness: an unbrick() whose second write failed after one set-topology
\* packet: the error reached the caller and no commit was written.
C25_Witness ==
    /\ lastOp.name = "unbrick"
    /\ lastOp.err = WriteFailed
    /\ lastOp.writes = 2
    /\ Len(lastOp.sent) = 1
    /\ IsTopologyPacket(lastOp.sent[1])

\* C26: after disconnect() completes, no handle opened by the controller
\* remains open, whatever the operations before it (failed ones and repeated
\* connect() calls included).
C26_DisconnectReleasesAll ==
    lastOp.name = "disconnect" => openHandles = {}

\* C27: connect() fails with a connection error, leaving the state
\* Disconnected and no handle held, whenever no 0b05:19af device is present
\* or the transport denies access; the two failures differ.
C27_ConnectFailsWithoutDevice ==
    ( /\ lastOp.name = "connect"
      /\ lastOp.pre = DISCONNECTED
      /\ lastOp.env \in (NoMatchingDevice \cup AccessDenied) )
        => /\ lastOp.env \in NoMatchingDevice => lastOp.err = ControllerNotFound
           /\ lastOp.env \in AccessDenied => lastOp.err = PermissionDenied
           /\ state = DISCONNECTED
           /\ device = NULL
           /\ lastOp.writes = 0

\* C28: the session topology is the one fixed at construction; no operation
\* changes it, and every initTopology() or connect(), also after an
\* unbrick(target), sends the session topology.
C28_TopologyFixed ==
    /\ topology = constructor(options)
    /\ (lastOp.name \in {"initTopology", "connect"} /\ lastOp.err = NoError)
        => IsTopologySequenceFor(lastOp.sent, constructor(options))

\* C28 witness: an initTopology() on a session of topology {0: 30, 2: 9}
\* after unbrick({2: 16}): channel 2 was set to 16 and committed, and the
\* initTopology() sent 30 and 9.
C28_Witness ==
    /\ lastOp.name = "initTopology"
    /\ lastOp.err = NoError
    /\ lastOp.pre = COMMITTED
    /\ options.topology.given
    /\ Len(lastOp.sent) = 2
    /\ TopologyCount(lastOp.sent[2]) = 9
    /\ \E i \in 2..Len(log[device]) :
        /\ IsCommitPacket(log[device][i])
        /\ IsTopologyPacket(log[device][i - 1])
        /\ TopologyChannel(log[device][i - 1]) = 2
        /\ TopologyCount(log[device][i - 1]) = 16

\* Before packet i of handle h, the newest set-topology packet of every
\* channel carries the count 0.
AllZeroBefore(h, i) ==
    \A c \in Channels :
        \E j \in 1..(i - 1) :
            /\ IsTopologyPacket(log[h][j])
            /\ TopologyChannel(log[h][j]) = c
            /\ TopologyCount(log[h][j]) = 0
            /\ \A k \in (j + 1)..(i - 1) :
                ~(IsTopologyPacket(log[h][k]) /\ TopologyChannel(log[h][k]) = c)

\* C29: the all-zero configuration is never transmitted: no handle receives
\* set-topology packets with count 0 for every channel and then a commit.
C29_NoAllZeroCommit ==
    \A h \in 1..MaxHandles : \A i \in 1..Len(log[h]) :
        IsCommitPacket(log[h][i]) => ~AllZeroBefore(h, i)

\* C30: getState(), getConfig() and isBricked() in any state, and setLED,
\* setAllLEDs and setEffect in Runtime or Committed, leave the tracked state
\* as it was; each of those colour and effect calls writes exactly one packet.
C30_StateFrame ==
    /\ lastOp.name \in {"getState", "getConfig", "isBricked"}
        => state = lastOp.pre
    /\ lastOp.name = "getState"
        => /\ lastOp.err = NoError
           /\ lastOp.ret.val = lastOp.pre
           /\ lastOp.writes = 0
    /\ (lastOp.name \in ColorOps /\ lastOp.pre \in {RUNTIME, COMMITTED})
        => /\ state = lastOp.pre
           /\ lastOp.err = NoError
           /\ lastOp.writes = 1
           /\ Len(lastOp.sent) = 1
           /\ IF lastOp.name = "setEffect"
              THEN IsEffectPacket(lastOp.sent[1])
              ELSE IsDirectPacket(lastOp.sent[1])

\* C30 witness: a setEffect() made in Committed wrote one packet and left
\* the state Committed.
C30_Witness ==
    /\ lastOp.name = "setEffect"
    /\ lastOp.pre = COMMITTED
    /\ state = COMMITTED
    /\ lastOp.writes = 1

\* C31: a newly constructed controller is in state Disconnected, holds no
\* device handle and has written nothing, whatever options (verbose,
\* topology) it was given; getState() right after construction says so.
C31_FreshController ==
    /\ nops = 0
        => /\ state = DISCONNECTED
           /\ device = NULL
           /\ openHandles = {}
           /\ \A h \in 1..MaxHandles : log[h] = <<>>
           /\ lastOp.writes = 0
    /\ (nops = 1 /\ lastOp.name = "getState")
        => lastOp.ret.val = DISCONNECTED

\* C31 witness: getState() on a controller just constructed with verbose set
\* and a topology of its own.
C31_Witness ==
    /\ nops = 1
    /\ lastOp.name = "getState"
    /\ lastOp.ret.val = DISCONNECTED
    /\ options.verbose
    /\ options.topology.given
    /\ openHandles = {}

\* C34: between operations the tracked state is Disconnected if and only if
\* the protocol layer holds no device handle, also after operations that
\* raised errors; a handle that is held is open.
C34_DisconnectedIffNoDevice ==
    /\ (state = DISCONNECTED) <=> (device = NULL)
    /\ device # NULL => device \in openHandles

\* C34 witness: a connect() that raised a write error left a session that is
\* not Disconnected and holds an open handle.
C34_Witness ==
    /\ lastOp.name = "connect"
    /\ lastOp.err = WriteFailed
    /\ state = LOCKED
    /\ device \in openHandles

\* C35: a failed operation does not advance the tracked state.
C35_FailureDoesNotAdvance ==
    lastOp.err # NoError => Rank(state) <= Rank(lastOp.pre)

\* C35 as the code has it: a failed initTopology() or commit() leaves the
\* state what it was (Runtime is set after the last channel, Committed after
\* the commit write); any other failed operation leaves it too, except a
\* connect() that opened the device (Locked) and a colour or effect call in
\* Locked whose own topology initialisation had completed (Runtime).
C35_FailedInitOrCommit ==
    lastOp.err # NoError
        => /\ lastOp.name \in {"initTopology", "commit"} => state = lastOp.pre
           /\ \/ state = lastOp.pre
              \/ lastOp.name = "connect" /\ state = LOCKED
              \/ /\ lastOp.name \in ColorOps
                 /\ lastOp.pre = LOCKED
                 /\ state = RUNTIME
                 /\ Len(lastOp.sent) = Cardinality(DOMAIN topology)

\* C35 witness: a commit() in Runtime whose write failed left Runtime.
C35_Witness ==
    /\ lastOp.name = "commit"
    /\ lastOp.pre = RUNTIME
    /\ lastOp.err = WriteFailed
    /\ state = RUNTIME

\* C38: at most one device handle opened by the controller is open at any
\* time, also when connect() is called on a connected session.
C38_OneHandle == Cardinality(openHandles) <= 1

\* C39: whenever unbrick() returned true and the device configuration does
\* not change afterwards, an immediately following isBricked() returns false.
C39_RecoveryAgreesWithDetection ==
    [][ ( /\ lastOp.name = "unbrick"
          /\ lastOp.err = NoError
          /\ lastOp.ret.val
          /\ lastOp'.name = "isBricked"
          /\ lastOp'.sent = <<ReadConfigPacket>>
          /\ lastOp'.resp = lastOp.resp )
        => ~lastOp'.ret.val ]_vars

\* C40: setAllLEDs(channel, color) on a channel that has no entry in the
\* topology, or whose count is 0, does not fail and sends one direct-color
\* packet filled for 16 LEDs.
C40_SetAllLEDsDefaultCount ==
    ( /\ lastOp.name = "setAllLEDs"
      /\ lastOp.pre \in {RUNTIME, COMMITTED}
      /\ \/ lastOp.args[1] \notin DOMAIN topology
         \/ topology[lastOp.args[1]] = 0 )
        => /\ lastOp.err = NoError
           /\ lastOp.writes = 1
           /\ Len(lastOp.sent) = 1
           /\ IsDirectPacket(lastOp.sent[1])
           /\ lastOp.sent[1][4] = 0
           /\ lastOp.sent[1][5] = 16
           /\ \A i \in 0..15 :
                TripletIs(lastOp.sent[1], i,
                          <<lastOp.args[2], lastOp.args[3], lastOp.args[4]>>)
           /\ ZeroFrom(lastOp.sent[1], 53)

\* C40 witness: setAllLEDs on a channel configured with 0 LEDs sent a packet
\* for 16.
C40_Witness ==
    /\ lastOp.name = "setAllLEDs"
    /\ lastOp.pre = RUNTIME
    /\ lastOp.args[1] \in DOMAIN topology
    /\ topology[lastOp.args[1]] = 0
    /\ Len(lastOp.sent) = 1
    /\ lastOp.sent[1][5] = 16

\* C36: Locked is observable between operations only after a connect() that
\* opened the device and failed while sending topology, the handle staying
\* open; no operation that returns without error leaves the session in
\* Locked, except getConfig() and isBricked() called while already Locked.
C36_LockedOnlyAfterFailedConnect ==
    [][ state' = LOCKED
        => /\ device' \in openHandles'
           /\ state # LOCKED
                => lastOp'.name = "connect" /\ lastOp'.err = WriteFailed
           /\ lastOp'.err = NoError
                => /\ lastOp'.name \in {"getConfig", "isBricked"}
                   /\ state = LOCKED ]_vars

\* C36 as the code has it: the same, with getState() among the calls that
\* return without error and leave a Locked session Locked.
C36_LockedFrame ==
    [][ state' = LOCKED
        => /\ device' \in openHandles'
           /\ state # LOCKED
                => lastOp'.name = "connect" /\ lastOp'.err = WriteFailed
           /\ lastOp'.err = NoError
                => /\ lastOp'.name \in {"getConfig", "isBricked", "getState"}
                   /\ state = LOCKED ]_vars

\* C36 witness: an isBricked() answered in a session that was Locked and
\* still is, its handle open.
C36_Witness ==
    /\ state = LOCKED
    /\ lastOp.name = "isBricked"
    /\ lastOp.pre = LOCKED
    /\ lastOp.err = NoError
    /\ lastOp.sent = <<ReadConfigPacket>>
    /\ device \in openHandles

C32_ExitCodes ==
    lastOp.ret.kind = "exit"
        => /\ ( /\ lastOp.name \in {"unbrick-rgb-all", "unbrick-all"}
                /\ lastOp.ret.bricked
                /\ ~lastOp.ret.recovered )
                => lastOp.ret.code = 1
           /\ (lastOp.name = "unbrick-rgb-verify" /\ lastOp.ret.bricked)
                => lastOp.ret.code = 1
           /\ lastOp.ret.code = 0
                => (~lastOp.ret.bricked \/ lastOp.ret.recovered)

\* C33: every getConfig() made in a connected state eventually completes,
\* even when the device never responds: a call that has sent its request
\* and waits in the read leaves the read.
C33_GetConfigCompletes == (pending # <<>>) ~> (pending = <<>>)

====
